---------------------------- MODULE Spec2Model ----------------------------
(***************************************************************************)
(* Event binding and subscription lifecycle of @veams/component.           *)
(*                                                                         *)
(*   src/src/helpers/event-handler.ts   EventElement.on / off and the      *)
(*                                      process-wide componentEvents table *)
(*   src/src/index.ts                   Component: registerEvent(s),       *)
(*                                      unregisterEvent(s), create,        *)
(*                                      destroy, addSubscriber             *)
(*                                                                         *)
(* JavaScript values are tagged records, so that typeof and === can be     *)
(* modelled: a string is a sequence of one-character strings.              *)
(***************************************************************************)
EXTENDS Naturals, Sequences, FiniteSets, TLC

VARIABLES
    componentEvents, \* event-handler.ts: the process-wide table of EventRecords
    listeners,       \* the listeners attached to the nodes (addEventListener)
    parent,          \* the document: each node's parent, "none" at a root
    subscribers,     \* each component's __subscribers
    context,         \* each component's context: none, one without Vent, one with
    vent,            \* the subscriptions the bus holds
    status,          \* each component's lifecycle (history)
    registered,      \* the bindings each component has recorded (history)
    nextId,          \* the serial of the next closure
    last             \* the last call, its outcome and the calls it made (history)

vars == <<componentEvents, listeners, parent, subscribers, context, vent,
          status, registered, nextId, last>>

-----------------------------------------------------------------------------
(* Bounds *)

\* closures (bound handlers, wrapper groups) created in one behaviour
MaxIds == 2

-----------------------------------------------------------------------------
(* JavaScript values *)

Undefined == [t |-> "undefined"]
Str(s) == [t |-> "string", s |-> s]
Fun(h) == [t |-> "function", h |-> h]
Bool(b) == [t |-> "boolean", b |-> b]

\* JavaScript truthiness of a value
Truthy(v) ==
    CASE v.t = "undefined" -> FALSE
      [] v.t = "string" -> v.s # <<>>
      [] v.t = "boolean" -> v.b
      [] OTHER -> TRUE

\* index of the first occurrence of character ch in s, 0 when there is none
RECURSIVE IndexOf(_, _, _)
IndexOf(s, ch, i) ==
    IF i > Len(s) THEN 0
    ELSE IF s[i] = ch THEN i
    ELSE IndexOf(s, ch, i + 1)

\* String.prototype.split with a one-character separator
RECURSIVE Split(_, _)
Split(s, sep) ==
    LET i == IndexOf(s, sep, 1)
    IN  IF i = 0 THEN <<s>>
        ELSE <<SubSeq(s, 1, i - 1)>> \o Split(SubSeq(s, i + 1, Len(s)), sep)

\* Array.prototype.join with a one-character separator
RECURSIVE Join(_, _)
Join(arr, sep) ==
    IF Len(arr) = 0 THEN <<>>
    ELSE IF Len(arr) = 1 THEN arr[1]
    ELSE arr[1] \o <<sep>> \o Join(Tail(arr), sep)

-----------------------------------------------------------------------------
(* The document *)

Nodes == {"R", "A", "B", "C", "D"}

\* R > A > B > C, and D beside A
InitParent == [n \in Nodes |->
    CASE n = "A" -> "R" [] n = "B" -> "A" [] n = "C" -> "B" [] n = "D" -> "R"
      [] OTHER -> "none"]

\* Element.matches: the nodes a selector selects
Matches(n, sel) ==
    \/ sel = <<"b">> /\ n \in {"B", "R"}
    \/ sel = <<"a">> /\ n = "A"

\* Element.closest: the nearest ancestor-or-self of n that matches sel
RECURSIVE closest(_, _, _)
closest(par, n, sel) ==
    IF n = "none" THEN "none"
    ELSE IF Matches(n, sel) THEN n
    ELSE closest(par, par[n], sel)

\* the propagation path of an event whose target is n
RECURSIVE Path(_, _)
Path(par, n) == IF n = "none" THEN {} ELSE {n} \cup Path(par, par[n])

-----------------------------------------------------------------------------
(* A run-to-completion call works on a machine record:                     *)
(*   ce    the componentEvents table       ls    the attached listeners    *)
(*   subs  the caller's __subscribers      vent  the bus's subscriptions   *)
(*   calls the calls made on the tracker and the bus, in order             *)
(*   log   console output, in order        out   "ok" or the error thrown  *)
(*   next  the serial of the next closure (closures are told apart by the   *)
(*         serial of the call that created them)                            *)

Machine(ce, ls, subs, vt, next) ==
    [ce |-> ce, ls |-> ls, subs |-> subs, vent |-> vt,
     calls |-> <<>>, log |-> <<>>, out |-> "ok", next |-> next]

\* the sequence s without its k-th element: Array.prototype.splice(k, 1)
Splice(s, k) == SubSeq(s, 1, k - 1) \o SubSeq(s, k + 1, Len(s))

\* let [event, namespace] = name.split('.')
EventOf(name) == Split(name, ".")[1]
NamespaceOf(name) ==
    LET parts == Split(name, ".")
    IN  IF Len(parts) >= 2 THEN Str(parts[2]) ELSE Undefined

\* the wrapper closure on() creates for its j-th event name
Wrapper(serial, j, targetSelector, evtHandler) ==
    [call |-> serial, j |-> j, sel |-> targetSelector, origin |-> evtHandler.h]

\* the loop of on() leaving out a name whose node, event, namespace, selector
\* and handler are already in the table
RECURSIVE OnLoopNoDuplicates(_, _, _, _, _, _, _, _)
OnLoopNoDuplicates(M, node, events, j, targetSelector, evtHandler, capture, serial) ==
    IF j > Len(events) THEN M
    ELSE LET handler == Wrapper(serial, j, targetSelector, evtHandler)
             event == EventOf(events[j])
             rec == [node |-> node, event |-> event,
                     namespace |-> NamespaceOf(events[j]),
                     handler |-> handler, originHandler |-> evtHandler.h,
                     selector |-> targetSelector]
             lst == [node |-> node, type |-> event, listener |-> handler,
                     capture |-> capture]
             held == \E i \in DOMAIN M.ce :
                        [M.ce[i] EXCEPT !.handler = handler] = rec
         IN  OnLoopNoDuplicates(
                 IF held THEN M
                 ELSE [M EXCEPT !.ls = @ \cup {lst}, !.ce = Append(@, rec)],
                 node, events, j + 1, targetSelector, evtHandler, capture,
                 serial)

\* the loop of on(): addEventListener and componentEvents.push per name
RECURSIVE OnLoop(_, _, _, _, _, _, _, _)
OnLoop(M, node, events, j, targetSelector, evtHandler, capture, serial) ==
    IF j > Len(events) THEN M
    ELSE LET handler == Wrapper(serial, j, targetSelector, evtHandler)
             event == EventOf(events[j])
             rec == [node |-> node, event |-> event,
                     namespace |-> NamespaceOf(events[j]),
                     handler |-> handler, originHandler |-> evtHandler.h,
                     selector |-> targetSelector]
             lst == [node |-> node, type |-> event, listener |-> handler,
                     capture |-> capture]
         IN  OnLoop([M EXCEPT !.ls = @ \cup {lst}, !.ce = Append(@, rec)],
                    node, events, j + 1, targetSelector, evtHandler, capture,
                    serial)

\* on() without the test of the handler: a call without a handler function
\* registers the undefined handler
onUnguarded(M, node, eventNames, selector, handler, useCapture, serial) ==
    LET targetSelector == IF selector.t = "string" THEN selector ELSE Undefined
        evtHandler == IF selector.t = "function" THEN selector
                      ELSE IF handler.t = "function" THEN handler
                      ELSE Fun([o |-> "undefined", n |-> 0])
        M1 == [M EXCEPT !.calls = Append(@, [f |-> "on", node |-> node,
                            a |-> <<eventNames, selector, handler>>])]
    IN  IF eventNames.t # "string"
        THEN [M1 EXCEPT !.log = Append(@, "error")]
        ELSE OnLoop(M1, node, Split(eventNames.s, " "), 1, targetSelector,
                    evtHandler, FALSE, serial)

\* EventElement.on(eventNames, selector, handler, useCapture) on this[0] = node
on(M, node, eventNames, selector, handler, useCapture, serial) ==
    LET targetSelector == IF selector.t = "string" THEN selector ELSE Undefined
        evtHandler == IF selector.t = "function" THEN selector
                      ELSE IF handler.t = "function" THEN handler
                      ELSE Undefined
        capture == IF handler.t = "boolean" THEN handler.b
                   ELSE IF useCapture.t = "boolean" THEN useCapture.b
                   ELSE FALSE
        M1 == [M EXCEPT !.calls = Append(@, [f |-> "on", node |-> node,
                            a |-> <<eventNames, selector, handler>>])]
    IN  IF eventNames.t # "string"
        THEN [M1 EXCEPT !.log = Append(@, "error")]
        ELSE IF ~Truthy(evtHandler)
        THEN [M1 EXCEPT !.log = Append(@, "error")]
        ELSE OnLoop(M1, node, Split(eventNames.s, " "), 1, targetSelector,
                    evtHandler, capture, serial)

\* the reverse scan leaving the loop after its first removal
RECURSIVE OffScanFirst(_, _, _, _, _, _, _)
OffScanFirst(M, node, event, namespace, targetSelector, evtHandler, k) ==
    IF k = 0 THEN M
    ELSE LET r == M.ce[k]
             unbindEvt == /\ r.node = node
                          /\ r.event = event
                          /\ r.namespace = namespace
                          /\ r.selector = targetSelector
                          /\ \/ ~Truthy(evtHandler)
                             \/ r.originHandler = evtHandler.h
                             \/ r.handler = evtHandler.h
             gone == [node |-> node, type |-> event, listener |-> r.handler,
                      capture |-> FALSE]
         IN  IF unbindEvt
             THEN [M EXCEPT !.ls = @ \ {gone}, !.ce = Splice(@, k)]
             ELSE OffScanFirst(M, node, event, namespace, targetSelector,
                               evtHandler, k - 1)

\* the reverse scan without the handler filter
RECURSIVE OffScanAnyHandler(_, _, _, _, _, _, _)
OffScanAnyHandler(M, node, event, namespace, targetSelector, evtHandler, k) ==
    IF k = 0 THEN M
    ELSE LET r == M.ce[k]
             unbindEvt == /\ r.node = node
                          /\ r.event = event
                          /\ r.namespace = namespace
                          /\ r.selector = targetSelector
             gone == [node |-> node, type |-> event, listener |-> r.handler,
                      capture |-> FALSE]
         IN  OffScanAnyHandler(
                 IF unbindEvt
                 THEN [M EXCEPT !.ls = @ \ {gone}, !.ce = Splice(@, k)]
                 ELSE M,
                 node, event, namespace, targetSelector, evtHandler, k - 1)

\* a scan running upwards from k that steps on after a removal, past the
\* record that moved into the place of the removed one
RECURSIVE OffScanUp(_, _, _, _, _, _, _)
OffScanUp(M, node, event, namespace, targetSelector, evtHandler, k) ==
    IF k > Len(M.ce) THEN M
    ELSE LET r == M.ce[k]
             unbindEvt == /\ r.node = node
                          /\ r.event = event
                          /\ r.namespace = namespace
                          /\ r.selector = targetSelector
                          /\ \/ ~Truthy(evtHandler)
                             \/ r.originHandler = evtHandler.h
                             \/ r.handler = evtHandler.h
             gone == [node |-> node, type |-> event, listener |-> r.handler,
                      capture |-> FALSE]
         IN  OffScanUp(IF unbindEvt
                       THEN [M EXCEPT !.ls = @ \ {gone}, !.ce = Splice(@, k)]
                       ELSE M,
                       node, event, namespace, targetSelector, evtHandler, k + 1)

\* the scan of off() running upwards from the first record
OffScanForward(M, node, event, namespace, targetSelector, evtHandler, k) ==
    OffScanUp(M, node, event, namespace, targetSelector, evtHandler, 1)

\* the reverse scan of off() for one event name, k running down to 1
RECURSIVE OffScan(_, _, _, _, _, _, _)
OffScan(M, node, event, namespace, targetSelector, evtHandler, k) ==
    IF k = 0 THEN M
    ELSE LET r == M.ce[k]
             tuple == /\ r.node = node
                      /\ r.event = event
                      /\ r.namespace = namespace
                      /\ r.selector = targetSelector
             unbindEvt == /\ tuple
                          /\ \/ ~Truthy(evtHandler)
                             \/ r.originHandler = evtHandler.h
                             \/ r.handler = evtHandler.h
             gone == [node |-> node, type |-> event, listener |-> r.handler,
                      capture |-> FALSE]
         IN  OffScan(IF unbindEvt
                     THEN [M EXCEPT !.ls = @ \ {gone}, !.ce = Splice(@, k)]
                     ELSE M,
                     node, event, namespace, targetSelector, evtHandler, k - 1)

RECURSIVE OffLoop(_, _, _, _, _, _)
OffLoop(M, node, events, j, targetSelector, evtHandler) ==
    IF j > Len(events) THEN M
    ELSE OffLoop(OffScan(M, node, EventOf(events[j]), NamespaceOf(events[j]),
                         targetSelector, evtHandler, Len(M.ce)),
                 node, events, j + 1, targetSelector, evtHandler)

\* off() taking no notice of the handler it is given
offAnyHandler(M, node, eventNames, selector, handler) ==
    LET targetSelector == IF selector.t = "string" THEN selector ELSE Undefined
        M1 == [M EXCEPT !.calls = Append(@, [f |-> "off", node |-> node,
                            a |-> <<eventNames, selector, handler>>])]
    IN  IF eventNames.t # "string"
        THEN [M1 EXCEPT !.out = "TypeError"]
        ELSE OffLoop(M1, node, Split(eventNames.s, " "), 1, targetSelector,
                     Undefined)

\* EventElement.off(eventNames, selector, handler) on this[0] = node
off(M, node, eventNames, selector, handler) ==
    LET targetSelector == IF selector.t = "string" THEN selector ELSE Undefined
        evtHandler == IF selector.t = "function" THEN selector
                      ELSE IF handler.t = "function" THEN handler
                      ELSE Undefined
        M1 == [M EXCEPT !.calls = Append(@, [f |-> "off", node |-> node,
                            a |-> <<eventNames, selector, handler>>])]
    IN  IF eventNames.t # "string"
        THEN [M1 EXCEPT !.out = "TypeError"]
        ELSE OffLoop(M1, node, Split(eventNames.s, " "), 1, targetSelector,
                     evtHandler)

\* the wrapper passing the node it listens on instead of the delegate target
WrapperCallCurrent(par, w, node, tgt) ==
    IF Truthy(w.sel) /\ closest(par, tgt, w.sel.s) = "none" THEN {}
    ELSE {[w |-> w, h |-> w.origin, el |-> node]}

\* what the wrapper w, listening on node, does with an event whose target is
\* tgt: the set of invocations evtHandler(e, el) it makes
WrapperCall(par, w, node, tgt) ==
    IF Truthy(w.sel)
    THEN LET delegateTarget == closest(par, tgt, w.sel.s)
         IN  IF delegateTarget # "none"
             THEN {[w |-> w, h |-> w.origin, el |-> delegateTarget]}
             ELSE {}
    ELSE {[w |-> w, h |-> w.origin, el |-> node]}

\* the handler invocations of one event of the given type with target tgt:
\* every listener of that type on the propagation path runs its wrapper
Invoked(ls, par, tgt, type) ==
    UNION {WrapperCall(par, l.listener, l.node, tgt) :
              l \in {x \in ls : x.type = type /\ x.node \in Path(par, tgt)}}

-----------------------------------------------------------------------------
(* Components *)

Components == {"c1", "c2"}

\* this.el of each component
El(c) == "A"

\* function buildEvtId(evtKeyArr, fnName)
buildEvtId(evtKeyArr, fnName) == Join(evtKeyArr, "_") \o <<"_">> \o fnName

\* helpers/template-engine: the expression between the double braces of a
\* placeholder token; a literal token is left as it is
tplEngine(token) ==
    IF /\ Len(token) >= 4
       /\ SubSeq(token, 1, 2) = <<"{", "{">>
       /\ SubSeq(token, Len(token) - 1, Len(token)) = <<"}", "}">>
    THEN [expr |-> TRUE, body |-> SubSeq(token, 3, Len(token) - 2)]
    ELSE [expr |-> FALSE, body |-> token]

\* helpers/get-string-value: a literal is returned unchanged, an expression is
\* evaluated against the scope: the path e resolves to the event name c, every
\* other path is unresolvable and yields undefined without throwing
getStringValue(tpl) ==
    IF ~tpl.expr THEN Str(tpl.body)
    ELSE IF tpl.body = <<"e">> THEN Str(<<"c">>)
    ELSE Undefined

\* index of the entry with the given id in a list of subscribers, 0 if none
RECURSIVE IdIndex(_, _, _)
IdIndex(entries, id, i) ==
    IF i > Len(entries) THEN 0
    ELSE IF entries[i].id = id THEN i
    ELSE IdIndex(entries, id, i + 1)

\* addSubscriber pushing on a list instead of assigning under the id
addSubscriberAppend(subs, obj) ==
    [t |-> "object",
     e |-> Append(IF subs.t = "undefined" THEN <<>> ELSE subs.e, obj)]

\* Component.addSubscriber: this.__subscribers[obj.id] = {...}; a property
\* that exists keeps its place in the enumeration order
addSubscriber(subs, obj) ==
    LET entries == IF subs.t = "undefined" THEN <<>> ELSE subs.e
        i == IdIndex(entries, obj.id, 1)
    IN  [t |-> "object",
         e |-> IF i = 0 THEN Append(entries, obj)
                        ELSE [entries EXCEPT ![i] = obj]]

\* the test `!this.context && !this.context.Vent` of the global branches:
\* without a context the second operand reads a property of undefined and
\* throws; with a context the first operand is false, whatever Vent is
VentMissing(ctx) == IF ctx = "none" THEN "throws" ELSE "false"

\* the test off by one
TooManyTokensOffByOne(arrlen) == arrlen > 3

\* if (arrlen > 2) throw
TooManyTokens(arrlen) == arrlen > 2

\* the branch tests of registerEvent: arrlen === 1 && !global, and
\* arrlen === 1 && global; everything else takes the delegated branch
IsLocalAnyFlag(arrlen, global) == arrlen = 1
IsLocal(arrlen, global) == arrlen = 1 /\ ~global
IsGlobal(arrlen, global) == arrlen = 1 /\ global

\* Component.registerEvent(evtKey, fn, global); the bound handler it creates
\* is [o |-> c, n |-> serial], and the serial is used up once the handler is
\* handed on
registerEvent(M, c, ctx, evtKey, fn, global) ==
    IF evtKey.t # "string" THEN [M EXCEPT !.log = Append(@, "error")]
    ELSE IF fn.t # "string" THEN [M EXCEPT !.log = Append(@, "error")]
    ELSE
    LET evtKeyArr == Split(evtKey.s, " ")
        arrlen == Len(evtKeyArr)
        evtType == getStringValue(tplEngine(evtKeyArr[1]))
        serial == M.next
        bindFn == [o |-> c, n |-> serial]
        id == buildEvtId(evtKeyArr, fn.s)
    IN  IF TooManyTokens(arrlen) THEN [M EXCEPT !.out = "Error"]
        ELSE IF IsLocal(arrlen, global)
        THEN LET M1 == on(M, El(c), evtType, Fun(bindFn), Undefined,
                          Undefined, serial)
             IN  [M1 EXCEPT !.next = serial + 1, !.subs = addSubscriber(@,
                     [id |-> id, delegate |-> Undefined, type |-> "event",
                      event |-> evtType, handler |-> bindFn])]
        ELSE IF IsGlobal(arrlen, global)
        THEN IF VentMissing(ctx) = "throws" THEN [M EXCEPT !.out = "TypeError"]
             ELSE IF VentMissing(ctx) = "true"
             THEN [M EXCEPT !.log = Append(@, "warn")]
             ELSE IF ctx # "vent" THEN [M EXCEPT !.out = "TypeError"]
             ELSE [M EXCEPT
                     !.next = serial + 1,
                     !.vent = @ \cup {[event |-> evtType, handler |-> bindFn]},
                     !.calls = Append(@, [f |-> "subscribe", node |-> "none",
                                   a |-> <<evtType, Fun(bindFn), Undefined>>]),
                     !.subs = addSubscriber(@,
                        [id |-> id, delegate |-> Undefined,
                         type |-> "globalEvent", event |-> evtType,
                         handler |-> bindFn])]
        ELSE LET delegate == getStringValue(tplEngine(evtKeyArr[2]))
                 M1 == on(M, El(c), evtType, delegate, Fun(bindFn), Undefined,
                          serial)
             IN  [M1 EXCEPT !.next = serial + 1, !.subs = addSubscriber(@,
                     [id |-> id, delegate |-> delegate,
                      type |-> "delegatedEvent", event |-> evtType,
                      handler |-> bindFn])]

\* Component.registerEvents(evts, global): Object.keys(evts).forEach; a table
\* is the sequence of its <<key, method name>> entries, Undefined if not set.
\* A throw ends the walk.
RECURSIVE registerEventsFrom(_, _, _, _, _, _)
registerEventsFrom(M, c, ctx, evts, global, i) ==
    IF i > Len(evts) \/ M.out # "ok" THEN M
    ELSE registerEventsFrom(
             registerEvent(M, c, ctx, Str(evts[i][1]), Str(evts[i][2]), global),
             c, ctx, evts, global, i + 1)

registerEvents(M, c, ctx, evts, global) ==
    IF evts = Undefined THEN M
    ELSE registerEventsFrom(M, c, ctx, evts.e, global, 1)

\* the detach of a Subscriber by event and selector alone, without its handler
DetachAnyHandler(M, c, ctx, obj) ==
    IF obj.type = "globalEvent"
    THEN [M EXCEPT
            !.vent = @ \ {[event |-> obj.event, handler |-> obj.handler]},
            !.calls = Append(@, [f |-> "unsubscribe", node |-> "none",
                       a |-> <<obj.event, Fun(obj.handler), Undefined>>])]
    ELSE off(M, El(c), obj.event, obj.delegate, Undefined)

\* the body of the unregister loops for one Subscriber obj
Detach(M, c, ctx, obj) ==
    IF obj.type = "globalEvent"
    THEN IF VentMissing(ctx) = "throws" THEN [M EXCEPT !.out = "TypeError"]
         ELSE IF VentMissing(ctx) = "true"
         THEN [M EXCEPT !.log = Append(@, "warn"), !.out = "return"]
         ELSE IF ctx # "vent" THEN [M EXCEPT !.out = "TypeError"]
         ELSE [M EXCEPT
                 !.vent = @ \ {[event |-> obj.event, handler |-> obj.handler]},
                 !.calls = Append(@, [f |-> "unsubscribe", node |-> "none",
                            a |-> <<obj.event, Fun(obj.handler), Undefined>>])]
    ELSE IF obj.type = "delegatedEvent"
    THEN off(M, El(c), obj.event, obj.delegate, Fun(obj.handler))
    ELSE off(M, El(c), obj.event, Fun(obj.handler), Undefined)

RECURSIVE unregisterFrom(_, _, _, _, _)
unregisterFrom(M, c, ctx, entries, i) ==
    IF i > Len(entries) \/ M.out # "ok" THEN M
    ELSE unregisterFrom(Detach(M, c, ctx, entries[i]), c, ctx, entries, i + 1)

\* Component.unregisterEvents(): for (key in this._subscribers)
unregisterEvents(M, c, ctx) ==
    LET R == IF M.subs.t = "undefined" THEN M
             ELSE unregisterFrom(M, c, ctx, M.subs.e, 1)
    IN  IF R.out = "return" THEN [R EXCEPT !.out = "ok"] ELSE R

\* unregisterEvent detaching every Subscriber instead of the one looked up
unregisterEventAll(M, c, ctx, evtKey, fn) == unregisterEvents(M, c, ctx)

\* Component.unregisterEvent(evtKey, fn)
unregisterEvent(M, c, ctx, evtKey, fn) ==
    IF evtKey.t # "string" THEN [M EXCEPT !.out = "TypeError"]
    ELSE IF M.subs.t = "undefined" THEN [M EXCEPT !.out = "TypeError"]
    ELSE LET id == buildEvtId(Split(evtKey.s, " "), fn.s)
             i == IdIndex(M.subs.e, id, 1)
             R == IF i = 0 THEN M ELSE Detach(M, c, ctx, M.subs.e[i])
         IN  IF R.out = "return" THEN [R EXCEPT !.out = "ok"] ELSE R

\* Component.create(): preRender, both registerEvents passes, bindEvents
create(M, c, ctx, events, subscribe) ==
    LET M1 == registerEvents(M, c, ctx, events, FALSE)
    IN  IF M1.out # "ok" THEN M1
        ELSE registerEvents(M1, c, ctx, subscribe, TRUE)


-----------------------------------------------------------------------------
(* Inputs *)

\* event keys: one token, two tokens, three tokens, one token with "_", the
\* empty string, and a placeholder whose path does not resolve
KeyClick == <<"c">>
KeyDelegated == <<"c", " ", "b">>
KeyThree == <<"c", " ", "b", " ", "b">>
KeyUnderscore == <<"c", "_", "b">>
KeyEmpty == <<>>
KeyUnresolved == <<"{", "{", "x", "}", "}">>

\* the (key, method name) pairs components declare and register
Registrations ==
    {<<KeyClick, <<"f">>>>, <<KeyClick, <<"g">>>>, <<KeyDelegated, <<"f">>>>,
     <<KeyUnderscore, <<"f">>>>, <<KeyThree, <<"f">>>>,
     <<KeyEmpty, <<"f">>>>, <<KeyUnresolved, <<"f">>>>}

\* the registerEvent calls made on a component: every pair as a local or
\* delegated binding, and a one-token and a two-token key with global set
RegisterCalls ==
    {<<r[1], r[2], FALSE>> : r \in Registrations}
    \cup {<<KeyClick, <<"f">>, TRUE>>, <<KeyDelegated, <<"f">>, TRUE>>}

Table(entries) == [t |-> "object", e |-> entries]

\* the events tables a component class declares
EventsTables ==
    {Undefined,
     Table(<<>>),
     Table(<<<<KeyClick, <<"f">>>>>>),
     Table(<<<<KeyClick, <<"f">>>>, <<KeyDelegated, <<"g">>>>>>),
     Table(<<<<KeyClick, <<"f">>>>, <<KeyThree, <<"f">>>>,
             <<KeyDelegated, <<"f">>>>>>)}

\* the subscribe tables a component class declares
SubscribeTables ==
    {Undefined,
     Table(<<<<KeyClick, <<"f">>>>>>),
     Table(<<<<KeyClick, <<"g">>>>>>)}

\* the components that act
Active == {"c1"}

\* handler functions of callers other than components
Handler1 == [o |-> "ext", n |-> 1]
Handler2 == [o |-> "ext", n |-> 2]

OnCall(node, eventNames, selector, handler, useCapture) ==
    [node |-> node, eventNames |-> eventNames, selector |-> selector,
     handler |-> handler, useCapture |-> useCapture]

\* the on() calls of other callers: plain and namespaced names with two
\* handlers, delegation, another node, two names at once, capture, a name
\* with two dots, and the calls without an event name or without a handler
OnCalls ==
    {OnCall("A", Str(n), Fun(h), Undefined, Undefined) :
        n \in {<<"c">>, <<"c", ".", "n">>}, h \in {Handler1, Handler2}}
    \cup
    {OnCall("A", Str(<<"c">>), Str(<<"b">>), Fun(Handler1), Undefined),
     OnCall("A", Str(<<"c">>), Str(<<"a">>), Fun(Handler1), Undefined),
     OnCall("B", Str(<<"c">>), Fun(Handler1), Undefined, Undefined),
     OnCall("A", Str(<<"c", " ", "k">>), Fun(Handler1), Undefined, Undefined),
     OnCall("A", Str(<<"c">>), Fun(Handler1), Bool(TRUE), Undefined),
     OnCall("A", Str(<<"c", ".", "n", ".", "x">>), Fun(Handler1), Undefined,
            Undefined),
     OnCall("A", Undefined, Fun(Handler1), Undefined, Undefined),
     OnCall("A", Str(<<"c", " ", "k">>), Undefined, Undefined, Undefined),
     OnCall("A", Str(<<"c", " ", "k">>), Str(<<"b">>), Undefined, Undefined)}

\* the off() calls of other callers
OffCalls ==
    {OnCall("A", Str(n), h, Undefined, Undefined) :
        n \in {<<"c">>, <<"c", ".", "n">>},
        h \in {Fun(Handler1), Fun(Handler2), Undefined}}
    \cup
    {OnCall("A", Str(<<"c">>), Str(<<"b">>), Fun(Handler1), Undefined),
     OnCall("A", Str(<<"c">>), Str(<<"a">>), Fun(Handler1), Undefined),
     OnCall("B", Str(<<"c">>), Fun(Handler1), Undefined, Undefined),
     OnCall("A", Str(<<"c", " ", "k">>), Fun(Handler1), Undefined, Undefined),
     OnCall("A", Undefined, Fun(Handler1), Undefined, Undefined)}

\* the event types dispatched
EventTypes == {<<"c">>}

-----------------------------------------------------------------------------
(* State *)

Contexts == {"none", "noVent", "vent"}

NoPrev == [op |-> "none", c |-> "none", arg |-> <<>>, len |-> 0]

NoOp == [op |-> "none", c |-> "none", arg |-> <<>>, out |-> "ok",
         calls |-> <<>>, log |-> <<>>, len |-> 0, prev |-> NoPrev,
         fired |-> {}]

Init ==
    /\ componentEvents = <<>>
    /\ listeners = {}
    /\ parent = InitParent
    /\ subscribers = [c \in Components |-> Undefined]
    /\ context \in [Components -> Contexts]
    /\ \A c \in Components \ Active : context[c] = "vent"
    /\ vent = {}
    /\ status = [c \in Components |-> "new"]
    /\ registered = [c \in Components |-> {}]
    /\ nextId = 1
    /\ last = NoOp

MachineOf(c) ==
    Machine(componentEvents, listeners, subscribers[c], vent, nextId)

\* the record of a call that ended in machine record M
Called(M, op, c, arg) ==
    [op |-> op, c |-> c, arg |-> arg, out |-> M.out, calls |-> M.calls,
     log |-> M.log, len |-> Len(componentEvents), prev |-> NoPrev,
     fired |-> {}]

\* the state after a call of component c that ended in machine record M
Commit(M, c, op, arg) ==
    /\ componentEvents' = M.ce
    /\ listeners' = M.ls
    /\ subscribers' = [subscribers EXCEPT ![c] = M.subs]
    /\ vent' = M.vent
    /\ nextId' = M.next
    /\ last' = Called(M, op, c, arg)

Binding(key, fn, global) == [key |-> key, fn |-> fn, global |-> global]

\* the entries of both tables in the order create() walks them
Declared(events, subscribe) ==
    LET ev == IF events = Undefined THEN <<>> ELSE events.e
        sb == IF subscribe = Undefined THEN <<>> ELSE subscribe.e
    IN  [i \in 1..Len(ev) |-> Binding(ev[i][1], ev[i][2], FALSE)]
        \o [i \in 1..Len(sb) |-> Binding(sb[i][1], sb[i][2], TRUE)]

-----------------------------------------------------------------------------
(* Actions: one per call; each runs to completion *)

\* this.registerEvent(evtKey, fn, global) on a component that is not destroyed
RegisterEvent(c, evtKey, fn, global) ==
    LET M == registerEvent(MachineOf(c), c, context[c], evtKey, fn, global)
    IN  /\ status[c] # "destroyed"
        /\ M.next <= MaxIds + 1
        /\ Commit(M, c, "registerEvent", <<evtKey, fn, global>>)
        /\ status' = [status EXCEPT ![c] = "manual"]
        /\ registered' = [registered EXCEPT ![c] =
              IF M.next > nextId THEN @ \cup {Binding(evtKey.s, fn.s, global)}
              ELSE @]
        /\ UNCHANGED <<parent, context>>

\* create() of a new component whose class declares the two tables
Create(c, events, subscribe) ==
    LET M == create(MachineOf(c), c, context[c], events, subscribe)
        decl == Declared(events, subscribe)
    IN  /\ status[c] = "new"
        /\ M.next <= MaxIds + 1
        /\ Commit(M, c, "create", <<events, subscribe>>)
        /\ status' = [status EXCEPT
                        ![c] = IF M.out = "ok" THEN "created" ELSE "failed"]
        /\ registered' = [registered EXCEPT ![c] =
              @ \cup {decl[i] : i \in 1..(M.next - nextId)}]
        /\ UNCHANGED <<parent, context>>

UnregisterEvents(c) ==
    LET M == unregisterEvents(MachineOf(c), c, context[c])
    IN  /\ Commit(M, c, "unregisterEvents", <<>>)
        /\ UNCHANGED <<parent, context, status, registered>>

UnregisterEvent(c, evtKey, fn) ==
    LET M == unregisterEvent(MachineOf(c), c, context[c], evtKey, fn)
    IN  /\ Commit(M, c, "unregisterEvent", <<evtKey, fn>>)
        /\ UNCHANGED <<parent, context, status, registered>>

\* destroy(): unregisterEvents(), unbindEvents(), this.el.remove(); a throw
\* of unregisterEvents ends it before the element is removed
Destroy(c) ==
    LET M == unregisterEvents(MachineOf(c), c, context[c])
    IN  /\ Commit(M, c, "destroy", <<>>)
        /\ IF M.out = "ok"
           THEN /\ parent' = [parent EXCEPT ![El(c)] = "none"]
                /\ status' = [status EXCEPT ![c] = "destroyed"]
           ELSE UNCHANGED <<parent, status>>
        /\ UNCHANGED <<context, registered>>

\* eventHandler(node).on(...) by a caller other than a component
On(a) ==
    LET M0 == Machine(componentEvents, listeners, Undefined, vent, nextId)
        M1 == on(M0, a.node, a.eventNames, a.selector, a.handler,
                 a.useCapture, nextId)
        M == IF M1.ce # componentEvents THEN [M1 EXCEPT !.next = nextId + 1]
             ELSE M1
    IN  /\ M.next <= MaxIds + 1
        /\ componentEvents' = M.ce
        /\ listeners' = M.ls
        /\ nextId' = M.next
        /\ last' = Called(M, "on", a.node, a)
        /\ UNCHANGED <<parent, subscribers, context, vent, status, registered>>

\* eventHandler(node).off(...) by a caller other than a component
Off(a) ==
    LET M0 == Machine(componentEvents, listeners, Undefined, vent, nextId)
        M == off(M0, a.node, a.eventNames, a.selector, a.handler)
    IN  /\ componentEvents' = M.ce
        /\ listeners' = M.ls
        /\ last' = [Called(M, "off", a.node, a) EXCEPT
                      !.prev = IF last.op = "on"
                               THEN [op |-> "on", c |-> last.c,
                                     arg |-> last.arg, len |-> last.len]
                               ELSE NoPrev]
        /\ UNCHANGED <<parent, subscribers, context, vent, status, registered,
                       nextId>>

\* an event of the given type is dispatched with target tgt: the listeners
\* on its propagation path run
Dispatch(tgt, type) ==
    /\ last' = [NoOp EXCEPT !.op = "dispatch", !.c = tgt, !.arg = type,
                  !.len = Len(componentEvents),
                  !.fired = Invoked(listeners, parent, tgt, type)]
    /\ UNCHANGED <<componentEvents, listeners, parent, subscribers, context,
                   vent, status, registered, nextId>>

\* one component and another caller that binds a handler to the same node
Next ==
    \/ \E c \in Active, r \in RegisterCalls :
          RegisterEvent(c, Str(r[1]), Str(r[2]), r[3])
    \/ \E c \in Active : RegisterEvent(c, Undefined, Str(<<"f">>), FALSE)
    \/ \E c \in Active, ev \in EventsTables, sb \in SubscribeTables :
          Create(c, ev, sb)
    \/ \E c \in Active : UnregisterEvents(c)
    \/ \E c \in Active, r \in Registrations :
          UnregisterEvent(c, Str(r[1]), Str(r[2]))
    \/ \E c \in Active : Destroy(c)
    \/ On(OnCall("A", Str(<<"c">>), Fun(Handler1), Undefined, Undefined))
    \/ Off(OnCall("A", Str(<<"c">>), Fun(Handler1), Undefined, Undefined))

Spec == Init /\ [][Next]_vars

\* the tracker alone, driven by callers of on() and off() and by events
InitTracker == Init /\ context = [c \in Components |-> "vent"]

NextTracker ==
    \/ \E a \in OnCalls : On(a)
    \/ \E a \in OffCalls : Off(a)
    \/ \E tgt \in Nodes, type \in EventTypes : Dispatch(tgt, type)

SpecTracker == InitTracker /\ [][NextTracker]_vars

\* the registerEvent and unregisterEvent calls of two components that share
\* an element, a bus and the table
SharedCalls ==
    {<<KeyClick, <<"f">>, FALSE>>, <<KeyDelegated, <<"f">>, FALSE>>,
     <<KeyClick, <<"f">>, TRUE>>}

\* two components on the same element, with the same declarations, and
\* another caller that binds a handler to another node
InitShared == Init /\ context = [c \in Components |-> "vent"]

NextShared ==
    \/ \E c \in Components, r \in SharedCalls :
          RegisterEvent(c, Str(r[1]), Str(r[2]), r[3])
    \/ \E c \in Components : UnregisterEvents(c)
    \/ \E c \in Components, r \in SharedCalls :
          UnregisterEvent(c, Str(r[1]), Str(r[2]))
    \/ \E c \in Components : Destroy(c)
    \/ On(OnCall("B", Str(<<"c">>), Fun(Handler1), Undefined, Undefined))

SpecShared == InitShared /\ [][NextShared]_vars

-----------------------------------------------------------------------------
(* Properties *)

\* the places in the table of the records whose origin handler c bound
OwnedRecords(c) ==
    {i \in 1..Len(componentEvents) : componentEvents[i].originHandler.o = c}

\* the Subscriber entries of c's registry
Entries(c) == IF subscribers[c].t = "undefined" THEN <<>> ELSE subscribers[c].e

IdOf(b) == buildEvtId(Split(b.key, " "), b.fn)

\* the token a key token stands for once its placeholder is resolved
Resolved(token) == getStringValue(tplEngine(token))

\* the calls the last call made on the given sink
CallsTo(f) == SelectSeq(last.calls, LAMBDA x : x.f = f)

\* C1: when create() has bound the declared tables of a component and nothing
\* else was registered on it, unregisterEvents leaves no EventRecord of the
\* component in the table and calls the bus's unsubscribe exactly once for
\* each Subscriber of type globalEvent.
C1_UnbindRemovesAll ==
    \A c \in Active :
        (last.op = "unregisterEvents" /\ last.c = c /\ status[c] = "created")
        => /\ OwnedRecords(c) = {}
           /\ Len(CallsTo("unsubscribe"))
                = Cardinality({i \in DOMAIN Entries(c) :
                                  Entries(c)[i].type = "globalEvent"})
           /\ \A i \in DOMAIN Entries(c) :
                 Entries(c)[i].type = "globalEvent"
                 => Cardinality({k \in DOMAIN last.calls :
                        /\ last.calls[k].f = "unsubscribe"
                        /\ last.calls[k].a = <<Entries(c)[i].event,
                              Fun(Entries(c)[i].handler), Undefined>>}) = 1

\* C2: once destroy() of a component has completed, no listener whose handler
\* the component bound is attached to its element, and no event of any target
\* invokes a handler of the component.
C2_NoListenerAfterDestroy ==
    \A c \in Active :
        status[c] = "destroyed"
        => /\ \A l \in listeners :
                 ~(l.node = El(c) /\ l.listener.origin.o = c)
           /\ \A tgt \in Nodes, type \in EventTypes :
                 \A f \in Invoked(listeners, parent, tgt, type) : f.h.o # c

\* the on() calls with a function as second argument and a single event name
LocalSingle(a) ==
    /\ a.eventNames.t = "string"
    /\ Len(Split(a.eventNames.s, " ")) = 1
    /\ a.selector.t = "function"

\* whether record r is one that off() with the arguments of a removes
MatchesCall(r, a) ==
    /\ r.node = a.node
    /\ r.event = EventOf(a.eventNames.s)
    /\ r.namespace = NamespaceOf(a.eventNames.s)
    /\ r.selector = Undefined
    /\ r.originHandler = a.selector.h

MatchCount(ce, a) ==
    Cardinality({i \in 1..Len(ce) : MatchesCall(ce[i], a)})

\* C3 as claimed: off right after on with the same node, single event name
\* and handler leaves the table as long as it was before the on call.
C3_OnOffNetZero ==
    (/\ last.op = "off"
     /\ last.prev.op = "on"
     /\ last.prev.arg = last.arg
     /\ LocalSingle(last.arg))
    => Len(componentEvents) = last.prev.len

\* C3 as amended: in every state, on followed by off with the same node,
\* single event name (with or without a namespace) and handler leaves no
\* record of that node, event, namespace and handler, and shortens the table
\* by the records of that kind it held before the on call: net zero exactly
\* when it held none.
C3_OnOffRemovesMatches ==
    /\ \A a \in OnCalls :
          LocalSingle(a)
          => LET M0 == Machine(componentEvents, listeners, Undefined, vent,
                               nextId)
                 M1 == on(M0, a.node, a.eventNames, a.selector, a.handler,
                          a.useCapture, nextId)
                 M2 == off(M1, a.node, a.eventNames, a.selector, a.handler)
             IN  /\ M2.out = "ok"
                 /\ Len(M1.ce) = Len(componentEvents) + 1
                 /\ Len(M2.ce)
                      = Len(componentEvents) - MatchCount(componentEvents, a)
                 /\ MatchCount(M2.ce, a) = 0
    /\ (/\ last.op = "off"
        /\ last.prev.op = "on"
        /\ last.prev.arg = last.arg
        /\ LocalSingle(last.arg))
       => /\ Len(componentEvents) <= last.prev.len
          /\ MatchCount(componentEvents, last.arg) = 0

\* on then off of the same handler and name, net zero, beside other records
C3_Witness ==
    /\ last.op = "off"
    /\ last.prev.op = "on"
    /\ last.prev.arg = last.arg
    /\ LocalSingle(last.arg)
    /\ Len(componentEvents) = last.prev.len
    /\ Len(componentEvents) > 0

\* what a delegating listener l has to do with an event whose target is tgt:
\* nothing if the event does not reach its node or no ancestor-or-self of the
\* target matches, else one invocation with the match all other matches are
\* ancestors of
DelegateExpected(l, tgt) ==
    LET cands == {m \in Path(parent, tgt) : Matches(m, l.listener.sel.s)}
    IN  IF l.node \notin Path(parent, tgt) \/ cands = {} THEN {}
        ELSE {[w |-> l.listener, h |-> l.listener.origin,
               el |-> CHOOSE m \in cands :
                         \A x \in cands : x \in Path(parent, m)]}

C5_OneEntryPerPair ==
    \A c \in Active :
        /\ \A i, j \in DOMAIN Entries(c) :
              Entries(c)[i].id = Entries(c)[j].id => i = j
        /\ \A b \in registered[c] :
              Cardinality({i \in DOMAIN Entries(c) :
                              Entries(c)[i].id = IdOf(b)}) = 1

\* the same key and method registered twice: two records, one Subscriber
C5_Witness ==
    \E c \in Active :
        /\ last.op = "registerEvent"
        /\ last.out = "ok"
        /\ Len(Entries(c)) = 1
        /\ \E i, j \in OwnedRecords(c) :
              /\ i # j
              /\ componentEvents[i].event = componentEvents[j].event
              /\ componentEvents[i].selector = componentEvents[j].selector

\* C6: two recorded registrations of a component that differ in the key
\* (same method name) or in the method name (same key) have two different
\* ids and two Subscriber entries.
C6_DistinctPairsDistinctEntries ==
    \A c \in Active :
        \A b1, b2 \in registered[c] :
            (\/ b1.key # b2.key /\ b1.fn = b2.fn
             \/ b1.key = b2.key /\ b1.fn # b2.fn)
            => /\ IdOf(b1) # IdOf(b2)
               /\ \E i, j \in DOMAIN Entries(c) :
                     /\ i # j
                     /\ Entries(c)[i].id = IdOf(b1)
                     /\ Entries(c)[j].id = IdOf(b2)

\* the first entry of a walk whose key has three or more tokens, 0 if none
FirstBad(decl) ==
    LET bad == {i \in DOMAIN decl : Len(Split(decl[i].key, " ")) >= 3}
    IN  IF bad = {} THEN 0 ELSE CHOOSE i \in bad : \A j \in bad : i <= j

C7_Step ==
    /\ (/\ last'.op = "registerEvent"
        /\ last'.arg[1].t = "string"
        /\ last'.arg[2].t = "string"
        /\ Len(Split(last'.arg[1].s, " ")) >= 3)
       => /\ last'.out = "Error"
          /\ last'.calls = <<>>
          /\ UNCHANGED <<componentEvents, listeners, subscribers, vent,
                         registered>>
    /\ (/\ last'.op = "create"
        /\ FirstBad(Declared(last'.arg[1], last'.arg[2])) # 0)
       => LET decl == Declared(last'.arg[1], last'.arg[2])
              i == FirstBad(decl)
              c == last'.c
          IN  /\ last'.out = "Error"
              /\ status'[c] = "failed"
              /\ Len(last'.calls) = i - 1
              /\ Len(componentEvents') = Len(componentEvents) + i - 1
              /\ registered'[c] = registered[c] \cup {decl[j] : j \in 1..(i - 1)}
              /\ LET before == IF subscribers[c].t = "undefined" THEN 0
                                ELSE Len(subscribers[c].e)
                     after == IF subscribers'[c].t = "undefined" THEN 0
                              ELSE Len(subscribers'[c].e)
                 IN  after <= before + i - 1
              /\ vent' = vent

\* C7: registerEvent with a key of three or more tokens throws and adds no
\* Subscriber, no EventRecord, no listener and no bus subscription; create()
\* ends with that error at the first such key of its tables, having bound the
\* entries before it and none after it.
C7_ThreeTokensAbort == [][C7_Step]_vars

\* a pass that bound its first entry, threw at the second, left the third
C7_Witness ==
    \E c \in Active :
        /\ last.op = "create"
        /\ last.c = c
        /\ last.out = "Error"
        /\ FirstBad(Declared(last.arg[1], last.arg[2])) = 2
        /\ Len(Declared(last.arg[1], last.arg[2])) >= 3
        /\ Len(last.calls) = 1
        /\ Cardinality(OwnedRecords(c)) = 1
        /\ status[c] = "failed"

\* C8: a registerEvent call with a key of one or two tokens records a
\* Subscriber under the id of its key and method: of type event, bound by
\* on() without a selector, for one token and global false; of type
\* globalEvent, bound by the bus's subscribe (when the bus is there), for one
\* token and global true; of type delegatedEvent, bound by on() with the
\* (resolved) second token as selector, for two tokens, whatever the flag.
\* The tracker holds the record of the binding when the event name resolved.
C8_Classification ==
    \A c \in Active :
        (/\ last.op = "registerEvent"
         /\ last.c = c
         /\ last.arg[1].t = "string"
         /\ last.arg[2].t = "string"
         /\ Len(Split(last.arg[1].s, " ")) <= 2)
        => LET arr == Split(last.arg[1].s, " ")
               global == last.arg[3]
               i == IdIndex(Entries(c), buildEvtId(arr, last.arg[2].s), 1)
               e == Entries(c)[i]
               bound(sel) ==
                   e.event.t = "string"
                   => \E k \in OwnedRecords(c) :
                          /\ componentEvents[k].originHandler = e.handler
                          /\ componentEvents[k].node = El(c)
                          /\ componentEvents[k].selector = sel
           IN  /\ (Len(arr) = 1 /\ ~global)
                  => /\ last.out = "ok" /\ i # 0
                     /\ e.type = "event"
                     /\ e.event = Resolved(arr[1])
                     /\ last.calls = <<[f |-> "on", node |-> El(c),
                           a |-> <<e.event, Fun(e.handler), Undefined>>]>>
                     /\ bound(Undefined)
               /\ (Len(arr) = 1 /\ global /\ context[c] = "vent")
                  => /\ last.out = "ok" /\ i # 0
                     /\ e.type = "globalEvent"
                     /\ e.event = Resolved(arr[1])
                     /\ last.calls = <<[f |-> "subscribe", node |-> "none",
                           a |-> <<e.event, Fun(e.handler), Undefined>>]>>
                     /\ [event |-> e.event, handler |-> e.handler] \in vent
                     /\ \A k \in OwnedRecords(c) :
                           componentEvents[k].originHandler # e.handler
               /\ Len(arr) = 2
                  => /\ last.out = "ok" /\ i # 0
                     /\ e.type = "delegatedEvent"
                     /\ e.event = Resolved(arr[1])
                     /\ e.delegate = Resolved(arr[2])
                     /\ last.calls = <<[f |-> "on", node |-> El(c),
                           a |-> <<e.event, e.delegate, Fun(e.handler)>>]>>
                     /\ bound(e.delegate)

\* a two-token key registered with global true is bound as delegated
C8_Witness ==
    \E c \in Active :
        /\ last.op = "registerEvent"
        /\ last.arg[1] = Str(KeyDelegated)
        /\ last.arg[3] = TRUE
        /\ last.out = "ok"
        /\ \E i \in DOMAIN Entries(c) :
              /\ Entries(c)[i].type = "delegatedEvent"
              /\ Entries(c)[i].delegate = Str(<<"b">>)
              /\ Entries(c)[i].handler.n = nextId - 1

\* C9: on a component without a bus (no context, or one without Vent), a
\* registerEvent call for a global key ends normally with a warning, no bus
\* subscription and no Subscriber of type globalEvent; create() with tables
\* of valid keys ends normally and has bound every entry of the events table.
C9_MissingBusSkips ==
    \A c \in Active :
        context[c] # "vent"
        => /\ (/\ last.op = "registerEvent"
               /\ last.c = c
               /\ last.arg[1].t = "string"
               /\ Len(Split(last.arg[1].s, " ")) = 1
               /\ last.arg[3])
              => /\ last.out = "ok"
                 /\ \E k \in DOMAIN last.log : last.log[k] = "warn"
                 /\ CallsTo("subscribe") = <<>>
                 /\ \A i \in DOMAIN Entries(c) :
                       Entries(c)[i].type # "globalEvent"
           /\ (/\ last.op = "create"
               /\ last.c = c
               /\ FirstBad(Declared(last.arg[1], last.arg[2])) = 0)
              => /\ last.out = "ok"
                 /\ vent = {}
                 /\ {b \in registered[c] : b.global} = {}
                 /\ LET decl == Declared(last.arg[1], last.arg[2])
                    IN  \A j \in DOMAIN decl :
                           ~decl[j].global => decl[j] \in registered[c]

C10_Step ==
    (/\ last'.op = "on"
     /\ \/ last'.arg.eventNames.t # "string"
        \/ last'.arg.selector.t # "function"
           /\ last'.arg.handler.t # "function")
    => /\ last'.out = "ok"
       /\ last'.log = <<"error">>
       /\ UNCHANGED <<componentEvents, listeners, nextId>>

\* C10: an on() call without a string as event name, or without a handler
\* function, logs an error, does not throw, and leaves the table and the
\* attached listeners as they were.
C10_OnRejected == [][C10_Step]_vars

\* a call with two event names and no handler, rejected beside other records
C10_Witness ==
    /\ last.op = "on"
    /\ last.arg.eventNames = Str(<<"c", " ", "k">>)
    /\ last.arg.selector.t # "function"
    /\ last.log = <<"error">>
    /\ Len(componentEvents) = last.len
    /\ Len(componentEvents) > 0

\* the arguments of an off() call as the call decodes them
OffSelector(a) == IF a.selector.t = "string" THEN a.selector ELSE Undefined
OffHandler(a) ==
    IF a.selector.t = "function" THEN a.selector
    ELSE IF a.handler.t = "function" THEN a.handler
    ELSE Undefined

\* whether off() with the arguments of a has to remove record r: node, event,
\* namespace of one of the names, selector, and the handler if one is given
OffMatches(r, a) ==
    /\ r.node = a.node
    /\ r.selector = OffSelector(a)
    /\ \E j \in DOMAIN Split(a.eventNames.s, " ") :
          LET name == Split(a.eventNames.s, " ")[j]
          IN  r.event = EventOf(name) /\ r.namespace = NamespaceOf(name)
    /\ \/ OffHandler(a) = Undefined
       \/ r.originHandler = OffHandler(a).h
       \/ r.handler = OffHandler(a).h

C11_Step ==
    (last'.op = "off" /\ last'.arg.eventNames.t = "string")
    => /\ last'.out = "ok"
       /\ componentEvents'
            = SelectSeq(componentEvents, LAMBDA r : ~OffMatches(r, last'.arg))
       /\ \A i \in DOMAIN componentEvents' :
             ~OffMatches(componentEvents'[i], last'.arg)

\* C11: an off() call with event names removes from the table every record
\* of its node whose event, namespace and selector are those of the call and,
\* when a handler is given, whose origin handler or wrapper is that handler:
\* none of them is left, adjacent ones included, and the records that do not
\* match are all still there, in their order.
C11_OffRemovesEveryMatch == [][C11_Step]_vars

\* one off() call removed two matching records and left a third, which does
\* not match, in the table
C11_Witness ==
    /\ last.op = "off"
    /\ last.out = "ok"
    /\ last.len >= Len(componentEvents) + 2
    /\ Len(componentEvents) > 0
    /\ Len(Split(last.arg.eventNames.s, " ")) = 1

\* the places of the records off() with the arguments of a has to remove
Dups(ce, a) == {i \in DOMAIN ce : OffMatches(ce[i], a)}

\* the calls with one event name and a handler function
SingleWithHandler(a) ==
    /\ a.eventNames.t = "string"
    /\ Len(Split(a.eventNames.s, " ")) = 1
    /\ OffHandler(a) # Undefined

\* C12 as claimed: one off() call with a node, event name, selector and
\* handler removes only one of the records that match it.
C12_OffRemovesFirstOnly ==
    (last.op = "off" /\ SingleWithHandler(last.arg) /\ last.out = "ok")
    => Len(componentEvents) >= last.len - 1

C12_Step ==
    /\ (last'.op = "on" /\ SingleWithHandler(last'.arg))
       => /\ Len(componentEvents') = Len(componentEvents) + 1
          /\ SubSeq(componentEvents', 1, Len(componentEvents))
               = componentEvents
          /\ Cardinality(Dups(componentEvents', last'.arg))
               = Cardinality(Dups(componentEvents, last'.arg)) + 1
    /\ (last'.op = "off" /\ SingleWithHandler(last'.arg))
       => /\ Dups(componentEvents', last'.arg) = {}
          /\ Len(componentEvents')
               = Len(componentEvents)
                   - Cardinality(Dups(componentEvents, last'.arg))

\* C12 as amended: every on() call with one event name and a handler adds a
\* record, also when the table already holds records of the same node, event,
\* namespace, selector and handler, so n calls leave n duplicates; one off()
\* call with those arguments removes all n of them.
C12_OffRemovesAllDuplicates == [][C12_Step]_vars

\* two on() calls with the same arguments, then one off() call that left
\* neither of the two records
C12_Witness ==
    /\ last.op = "off"
    /\ SingleWithHandler(last.arg)
    /\ last.prev.op = "on"
    /\ last.prev.arg = last.arg
    /\ last.prev.len >= 1
    /\ last.len = last.prev.len + 1
    /\ Len(componentEvents) = last.len - 2

\* the last call, an off() call with event names, made once more in the
\* state it left changes neither the table nor the listeners and ends normally
OffAgainNoOp ==
    (last.op = "off" /\ last.arg.eventNames.t = "string")
    => LET M0 == Machine(componentEvents, listeners, Undefined, vent, nextId)
           M == off(M0, last.arg.node, last.arg.eventNames, last.arg.selector,
                    last.arg.handler)
       IN  /\ M.out = "ok"
           /\ M.ce = componentEvents
           /\ M.ls = listeners

\* C13: in every state, an off() call with event names that no record of the
\* table matches ends normally and leaves the table and the attached
\* listeners as they were; and after any off() call, the same call made
\* again changes nothing.
C13_OffNoMatchNoOp ==
    /\ \A a \in OffCalls :
          (a.eventNames.t = "string" /\ Dups(componentEvents, a) = {})
          => LET M0 == Machine(componentEvents, listeners, Undefined, vent,
                               nextId)
                 M == off(M0, a.node, a.eventNames, a.selector, a.handler)
             IN  /\ M.out = "ok"
                 /\ M.ce = componentEvents
                 /\ M.ls = listeners
    /\ OffAgainNoOp

\* an off() call for a handler that is not bound, on a node and event for
\* which another handler is: the record of the other handler is still there
C13_Witness ==
    /\ last.op = "off"
    /\ last.out = "ok"
    /\ SingleWithHandler(last.arg)
    /\ Len(componentEvents) = last.len
    /\ \E i \in DOMAIN componentEvents :
          /\ OffMatches(componentEvents[i],
                        [last.arg EXCEPT !.selector = Undefined,
                                         !.handler = Undefined])
          /\ componentEvents[i].originHandler # OffHandler(last.arg).h

C14_Step ==
    last'.op = "unregisterEvent"
    => LET c == last'.c
           id == buildEvtId(Split(last'.arg[1].s, " "), last'.arg[2].s)
           i == IdIndex(Entries(c), id, 1)
           e == Entries(c)[i]
       IN  /\ subscribers' = subscribers
           /\ i = 0 => /\ last'.calls = <<>>
                       /\ UNCHANGED <<componentEvents, listeners, vent>>
           /\ (i # 0 /\ e.type = "globalEvent")
              => /\ last'.calls = <<[f |-> "unsubscribe", node |-> "none",
                        a |-> <<e.event, Fun(e.handler), Undefined>>]>>
                 /\ vent' = vent \ {[event |-> e.event, handler |-> e.handler]}
                 /\ UNCHANGED <<componentEvents, listeners>>
           /\ (i # 0 /\ e.type # "globalEvent")
              => /\ Len(last'.calls) = 1
                 /\ last'.calls[1].f = "off"
                 /\ last'.calls[1].node = El(c)
                 /\ Fun(e.handler) \in {last'.calls[1].a[2], last'.calls[1].a[3]}
                 /\ componentEvents'
                      = SelectSeq(componentEvents,
                                  LAMBDA r : r.originHandler # e.handler)
                 /\ listeners'
                      = {l \in listeners : l.listener.origin # e.handler}
                 /\ vent' = vent

\* C14: unregisterEvent(key, method) makes one detach call, for the
\* Subscriber recorded under the id of the pair: it removes the records and
\* listeners of that Subscriber's handler, or its bus subscription, and leaves
\* the registry, every other record and listener, and every other bus
\* subscription as they were; without such a Subscriber it changes nothing.
C14_UnregisterEventFrame == [][C14_Step]_vars

\* one of two bindings of a component detached, the other still bound
C14_Witness ==
    \E c \in Active :
        /\ last.op = "unregisterEvent"
        /\ last.c = c
        /\ last.out = "ok"
        /\ Len(last.calls) = 1
        /\ Len(componentEvents) = last.len - 1
        /\ Len(Entries(c)) = 2
        /\ OwnedRecords(c) # {}

\* the calls that walk the registry, or look up one entry, to detach
Teardowns == {"unregisterEvent", "unregisterEvents", "destroy"}

C15_Step ==
    (/\ last.op \in Teardowns
     /\ last'.op \in Teardowns
     /\ last'.c = last.c)
    => \A i \in DOMAIN last.calls, j \in DOMAIN last'.calls :
          last'.calls[j] # last.calls[i]

\* C15: when a teardown call of a component (unregisterEvent,
\* unregisterEvents, destroy) has issued the detach call of a Subscriber, the
\* next teardown call of that component does not issue it again: it makes no
\* off() and no unsubscribe call with that Subscriber's event and handler.
C15_NoSecondDetach == [][C15_Step]_vars

\* C16: on a component that holds a Subscriber of type globalEvent, when
\* the bus has gone missing since it was bound (the context object has lost
\* its Vent, or the component its context), unregisterEvents ends normally
\* with a warning, makes no unsubscribe call, and leaves no record of the
\* handlers of the component's other Subscribers in the table.
C16_MissingBusAtUnregister ==
    \A c \in Active, ctx \in Contexts \ {"vent"} :
        (\E i \in DOMAIN Entries(c) : Entries(c)[i].type = "globalEvent")
        => LET R == unregisterEvents(MachineOf(c), c, ctx)
           IN  /\ R.out = "ok"
               /\ \E k \in DOMAIN R.log : R.log[k] = "warn"
               /\ \A k \in DOMAIN R.calls : R.calls[k].f # "unsubscribe"
               /\ \A i \in DOMAIN Entries(c), k \in DOMAIN R.ce :
                     Entries(c)[i].type # "globalEvent"
                     => R.ce[k].originHandler # Entries(c)[i].handler

\* C17: an off() call without an event name (not a string) ends normally
\* with an error logged and the table as long as before; and so does a
\* teardown call of a component that issues such an off() call, for a
\* Subscriber whose event name resolved to undefined.
C17_OffWithoutNameRejected ==
    /\ (last.op = "off" /\ last.arg.eventNames.t # "string")
       => /\ last.out = "ok"
          /\ \E k \in DOMAIN last.log : last.log[k] = "error"
          /\ Len(componentEvents) = last.len
    /\ (/\ last.op \in Teardowns
        /\ \E k \in DOMAIN last.calls :
              last.calls[k].f = "off" /\ last.calls[k].a[1].t # "string")
       => /\ last.out = "ok"
          /\ \E k \in DOMAIN last.log : last.log[k] = "error"

\* the keys without a token: nothing but spaces
ZeroTokens(key) == \A i \in DOMAIN key : key[i] = " "

\* C18: a registerEvent call with a key of zero tokens (with a method name)
\* makes no call on the tracker or the bus, leaves the table as long as it
\* was, and leaves no Subscriber under the id of the key and method.
C18_ZeroTokenKeyRejected ==
    \A c \in Active :
        (/\ last.op = "registerEvent"
         /\ last.c = c
         /\ last.arg[1].t = "string"
         /\ last.arg[2].t = "string"
         /\ ZeroTokens(last.arg[1].s))
        => /\ last.calls = <<>>
           /\ Len(componentEvents) = last.len
           /\ IdIndex(Entries(c),
                      buildEvtId(Split(last.arg[1].s, " "), last.arg[2].s),
                      1) = 0

\* C19: in every state the table and the attached listeners correspond: each
\* record has its wrapper attached to its node for its event, and each
\* attached wrapper has its record, whatever useCapture it was attached with.
C19_TableIndexesListeners ==
    /\ \A i \in DOMAIN componentEvents :
          \E l \in listeners :
              /\ l.node = componentEvents[i].node
              /\ l.type = componentEvents[i].event
              /\ l.listener = componentEvents[i].handler
    /\ \A l \in listeners :
          \E i \in DOMAIN componentEvents :
              /\ componentEvents[i].node = l.node
              /\ componentEvents[i].event = l.type
              /\ componentEvents[i].handler = l.listener

\* the records in table ce that component c bound and that none of the
\* Subscribers in entries accounts for
Orphans(c, ce, entries) ==
    {k \in DOMAIN ce :
        /\ ce[k].originHandler.o = c
        /\ \A i \in DOMAIN entries : entries[i].handler # ce[k].originHandler}

C20_Step ==
    /\ (/\ last'.op = "registerEvent"
        /\ last'.out = "ok"
        /\ last'.arg[1].t = "string"
        /\ last'.arg[2].t = "string"
        /\ ~IsGlobal(Len(Split(last'.arg[1].s, " ")), last'.arg[3])
        /\ IdIndex(Entries(last'.c),
                   buildEvtId(Split(last'.arg[1].s, " "), last'.arg[2].s),
                   1) # 0)
       => LET c == last'.c
              i == IdIndex(Entries(c),
                     buildEvtId(Split(last'.arg[1].s, " "), last'.arg[2].s), 1)
              old == Entries(c)[i]
              after == subscribers'[c].e
          IN  /\ Len(after) = Len(Entries(c))
              /\ after[i].id = old.id
              /\ after[i].handler # old.handler
              /\ \A k \in DOMAIN last'.calls : last'.calls[k].f = "on"
              /\ \A k \in DOMAIN componentEvents :
                    componentEvents'[k] = componentEvents[k]
              /\ \A k \in DOMAIN componentEvents :
                    componentEvents[k].originHandler = old.handler
                    => k \in Orphans(c, componentEvents', after)
    /\ last'.op \in Teardowns
       => \A k \in Orphans(last'.c, componentEvents, Entries(last'.c)) :
             \E m \in DOMAIN componentEvents' :
                 componentEvents'[m] = componentEvents[k]

C21_SubscriberHasRecord ==
    \A c \in Active :
        (/\ last.op = "registerEvent"
         /\ last.c = c
         /\ last.out = "ok"
         /\ last.arg[1].t = "string"
         /\ last.arg[2].t = "string"
         /\ ~IsGlobal(Len(Split(last.arg[1].s, " ")), last.arg[3]))
        => LET i == IdIndex(Entries(c),
                       buildEvtId(Split(last.arg[1].s, " "), last.arg[2].s), 1)
               e == Entries(c)[i]
           IN  /\ i # 0
               /\ e.type \in {"event", "delegatedEvent"}
               /\ Cardinality({k \in DOMAIN componentEvents :
                      /\ componentEvents[k].node = El(c)
                      /\ componentEvents[k].originHandler = e.handler
                      /\ Str(componentEvents[k].event) = e.event
                      /\ componentEvents[k].selector = e.delegate}) = 1

\* the namespace of an event name as the whole of what follows its first dot
FullNamespaceOf(name) ==
    LET i == IndexOf(name, ".", 1)
    IN  IF i = 0 THEN Undefined ELSE Str(SubSeq(name, i + 1, Len(name)))

\* C22: when on() has put the only records of the table, for one event name,
\* an off() call for one event name whose namespace (all that follows the
\* first dot, or none) is not the namespace of that name removes nothing.
C22_NamespaceExactMatch ==
    (/\ last.op = "off"
     /\ last.prev.op = "on"
     /\ last.prev.len = 0
     /\ last.arg.eventNames.t = "string"
     /\ last.prev.arg.eventNames.t = "string"
     /\ Len(Split(last.arg.eventNames.s, " ")) = 1
     /\ Len(Split(last.prev.arg.eventNames.s, " ")) = 1
     /\ FullNamespaceOf(last.arg.eventNames.s)
          # FullNamespaceOf(last.prev.arg.eventNames.s))
    => Len(componentEvents) = last.len

\* C23: whatever the target of an event, every invocation a delegated
\* listener of a component makes of its handler passes the component's
\* element or a node inside it as the matched element.
C23_MatchedElementInsideEl ==
    \A c \in Active, tgt \in Nodes, type \in EventTypes :
        \A f \in Invoked(listeners, parent, tgt, type) :
            (f.h.o = c /\ Truthy(f.w.sel))
            => El(c) \in Path(parent, f.el)

\* the records of table ce that component c did not bind, in their order
NotOwned(ce, c) == SelectSeq(ce, LAMBDA r : r.originHandler.o # c)

C24_Step ==
    last'.op \in Teardowns
    => LET c == last'.c
       IN  /\ NotOwned(componentEvents', c) = NotOwned(componentEvents, c)
           /\ {l \in listeners' : l.listener.origin.o # c}
                = {l \in listeners : l.listener.origin.o # c}
           /\ {v \in vent' : v.handler.o # c} = {v \in vent : v.handler.o # c}
           /\ \A d \in Components \ {c} : subscribers'[d] = subscribers[d]

\* C24: an unregisterEvent, unregisterEvents or destroy call of a component
\* leaves every record that the component did not bind in the table, in its
\* order, with its listener attached: those of another component on the same
\* element with the same event and selector, and those on other nodes; and
\* it leaves the other component's registry and bus subscriptions alone.
C24_TeardownFrame == [][C24_Step]_vars

\* a component detached its binding while the other component holds a record
\* on the same element for the same event and selector
C24_Witness ==
    /\ last.op = "unregisterEvents"
    /\ last.c = "c1"
    /\ last.out = "ok"
    /\ Len(componentEvents) < last.len
    /\ OwnedRecords("c1") = {}
    /\ \E k \in OwnedRecords("c2"), i \in DOMAIN Entries("c1") :
          /\ Entries("c1")[i].type # "globalEvent"
          /\ componentEvents[k].node = El("c1")
          /\ Str(componentEvents[k].event) = Entries("c1")[i].event
          /\ componentEvents[k].selector = Entries("c1")[i].delegate

\* C25: an unregisterEvent call for a key and method that the component has
\* never registered ends normally, makes no off() and no unsubscribe call and
\* leaves the table as long as it was, also on a component that has no
\* Subscriber yet.
C25_UnregisterUnknownNoOp ==
    \A c \in Active :
        (/\ last.op = "unregisterEvent"
         /\ last.c = c
         /\ \A b \in registered[c] :
               ~(b.key = last.arg[1].s /\ b.fn = last.arg[2].s))
        => /\ last.out = "ok"
           /\ last.calls = <<>>
           /\ Len(componentEvents) = last.len


=============================================================================
